---- MODULE Spec2Model ----
(***************************************************************************)
(* Model of circledetect: one run of perform_calculation (main.py) on one  *)
(* image slot, with calculate_circle_center_height (image_processing.py)   *)
(* inlined statement group by statement group.                             *)
(*                                                                         *)
(* The OpenCV detectors are library calls on pixel data; their results are *)
(* inputs of the model, drawn from small sets of values the detectors can  *)
(* return for the configured parameters.  Floating-point values are exact  *)
(* rationals <<n, d>>; the inputs are chosen so that no comparison of the  *)
(* code lands on a rounding boundary of float64.                           *)
(***************************************************************************)
EXTENDS Integers, Sequences, FiniteSets, TLC

(***************************************************************************)
(* Bounds of the model.                                                    *)
(***************************************************************************)
MaxLines == 3
MaxCircles == 2

(***************************************************************************)
(* Python None, and an optional value as a sequence of length 0 or 1.      *)
(***************************************************************************)
None == << >>
Some(v) == << v >>

Abs(n) == IF n < 0 THEN -n ELSE n
Max(a, b) == IF a >= b THEN a ELSE b

RECURSIVE GCD(_, _)
GCD(a, b) == IF b = 0 THEN a ELSE GCD(b, a % b)

(***************************************************************************)
(* float64 values as rationals <<n, d>> in lowest terms with d > 0.        *)
(* <<0, 0>> stands for a non-finite value (inf or nan), which is what      *)
(* numpy's float64 division by zero produces; every comparison with it is  *)
(* false for the purposes of the code's range tests.                       *)
(***************************************************************************)
NonFinite == <<0, 0>>
Finite(r) == r[2] # 0
Rat(n, d) ==
    IF d = 0 THEN NonFinite
    ELSE LET g == GCD(Abs(n), Abs(d))
             s == IF d < 0 THEN -1 ELSE 1
         IN  <<(s * n) \div g, (s * d) \div g>>
FromInt(n) == <<n, 1>>
FAdd(a, b) == IF Finite(a) /\ Finite(b) THEN Rat(a[1] * b[2] + b[1] * a[2], a[2] * b[2]) ELSE NonFinite
FSub(a, b) == IF Finite(a) /\ Finite(b) THEN Rat(a[1] * b[2] - b[1] * a[2], a[2] * b[2]) ELSE NonFinite
FMul(a, b) == IF Finite(a) /\ Finite(b) THEN Rat(a[1] * b[1], a[2] * b[2]) ELSE NonFinite
FDiv(a, b) == IF Finite(a) /\ Finite(b) THEN Rat(a[1] * b[2], a[2] * b[1]) ELSE NonFinite
FAbs(a) == <<Abs(a[1]), a[2]>>
FLt(a, b) == Finite(a) /\ Finite(b) /\ a[1] * b[2] < b[1] * a[2]
FLe(a, b) == Finite(a) /\ Finite(b) /\ a[1] * b[2] <= b[1] * a[2]
\* Python int(x) of a finite float: truncation toward zero.
IntOf(a) == IF a[1] >= 0 THEN a[1] \div a[2] ELSE -((-a[1]) \div a[2])

(***************************************************************************)
(* Constants of calculate_circle_center_height.                            *)
(***************************************************************************)
max_process_dim == 800
minLineLength == 100
minDist == 150
minRadius == 80
maxRadius == 150
ParallelEps_Hundredth == <<1, 100>>   \* ParallelEps as 0.01
ParallelEps == <<1, 10>>       \* 0.1, line 109
VertexRegion == <<2, 5>>       \* 0.4, line 118
BandLow == <<3, 10>>           \* 0.3, line 166
BandHigh == <<7, 10>>          \* 0.7, line 166
Uint16 == 65536                \* np.uint16 holds values modulo 2^16

(***************************************************************************)
(* Inputs.  A raw image is unreadable or has a shape <<h, w>>.             *)
(*   <<400, 400>>    processed as it is;                                   *)
(*   <<1000, 1600>>  downscaled by 0.5 to 500 x 800;                       *)
(*   <<801, 1>>      downscaled by 800/801: the width truncates to 0;      *)
(*   <<1600, 2>>     downscaled by 0.5 to 800 x 1.                         *)
(***************************************************************************)
Shapes == { <<400, 400>>, <<1000, 1600>>, <<801, 1>>, <<1600, 2>> }

(***************************************************************************)
(* Segments <<x1, y1, x2, y2>> HoughLinesP may report (integer endpoints). *)
(* The slopes are binary fractions, so that the float64 arithmetic of the  *)
(* intersection truncates to the same integers as the exact arithmetic:    *)
(*   SegA   slope  0.75     (36.87 degrees)    y =  0.75 x + 30            *)
(*   SegB   slope -2        (116.57 degrees)   y = -2 x + 580              *)
(*   SegB2  slope -2        parallel to SegB   y = -2 x + 780              *)
(*   SegB3  slope -2.0625   (115.87 degrees)   y = -2.0625 x + 670         *)
(*   SegC   slope -1.5      (-56.31 degrees)   y = -1.5 x + 482.5          *)
(*   SegH   horizontal      (0 degrees)                                    *)
(*   SegV   vertical        (90 degrees)                                   *)
(***************************************************************************)
SegA == <<120, 120, 320, 270>>
SegB == <<200, 180, 100, 380>>
SegB2 == <<300, 180, 200, 380>>
SegB3 == <<320, 10, 224, 208>>
SegC == <<101, 331, 201, 181>>
SegH == <<50, 200, 350, 200>>
SegV == <<200, 50, 200, 350>>
Segments == { SegA, SegB, SegB2, SegB3, SegC, SegH, SegV }

(***************************************************************************)
(* Circles <<x, y, r>> HoughCircles may report, as float32 values given in *)
(* halves (a value k stands for k/2): centres are cell centres, x + 0.5.   *)
(***************************************************************************)
RawCircles == { <<401, 301, 200>>,     \* (200.5, 150.5, 100.0)
                <<760, 520, 200>>,     \* (380.0, 260.0, 100.0)
                <<100, 559, 241>>,     \* ( 50.0, 279.5, 120.5)
                <<700,  20, 280>> }    \* (350.0,  10.0, 140.0)

\* All sequences without repetition over S, of length at most n.
RECURSIVE DistinctSeqs(_, _)
DistinctSeqs(S, n) ==
    IF n = 0 THEN { << >> }
    ELSE LET shorter == DistinctSeqs(S, n - 1)
         IN  shorter \cup
             { Append(p[1], p[2]) :
                 p \in { q \in shorter \X S :
                           /\ Len(q[1]) = n - 1
                           /\ \A k \in DOMAIN q[1] : q[1][k] # q[2] } }

(***************************************************************************)
(* What the detectors can return on a processed image of shape <<h, w>>.   *)
(* HoughLinesP: endpoints are pixels of the image, and a segment is kept   *)
(* only if it spans at least minLineLength along x or along y.             *)
(* HoughCircles: centres lie in the image, radii within                    *)
(* [minRadius, maxRadius], and two centres are at least minDist apart.     *)
(***************************************************************************)
DetectableSegment(s, shape) ==
    /\ \A k \in {1, 3} : 0 <= s[k] /\ s[k] < shape[2]
    /\ \A k \in {2, 4} : 0 <= s[k] /\ s[k] < shape[1]
    /\ Max(Abs(s[3] - s[1]), Abs(s[4] - s[2])) >= minLineLength
DetectableCircle(c, shape) ==
    /\ 0 <= c[1] /\ c[1] < 2 * shape[2]
    /\ 0 <= c[2] /\ c[2] < 2 * shape[1]
    /\ 2 * minRadius <= c[3] /\ c[3] <= 2 * maxRadius
FarApart(c, d) ==
    (c[1] - d[1]) * (c[1] - d[1]) + (c[2] - d[2]) * (c[2] - d[2])
        >= (2 * minDist) * (2 * minDist)
LineResults(shape) ==
    DistinctSeqs({ s \in Segments : DetectableSegment(s, shape) }, MaxLines)
CircleResults(shape) ==
    { cs \in DistinctSeqs({ c \in RawCircles : DetectableCircle(c, shape) }, MaxCircles) :
        \A a, b \in DOMAIN cs : a # b => FarApart(cs[a], cs[b]) }

VARIABLES
    pc,                      \* where the run is
    file,                    \* the image file: [readable, shape]
    is_image_1,              \* perform_calculation's slot argument
    loading_visible,         \* loading_ref.current.visible
    preview_visible,         \* preview_ref.current.visible
    preview_src,             \* what preview_ref.current.src_base64 shows
    result_value,            \* result_ref.current.value
    result_color,            \* result_ref.current.color
    cv_calls,                \* the cv2 functions called so far by calculate_circle_center_height
    img,                     \* the processed image: None or its shape <<h, w>>
    lines,                   \* HoughLinesP's result (None when it found nothing)
    v_lines,                 \* the segments that passed the angle filter
    i, j,                    \* the pair loop's indices (1-based)
    line1, line2,            \* the pair of segments of the last iteration
    pair,                    \* what the last pair iteration did
    potential_intersections, \* the stored (truncated) valid intersections
    v_bottom_point,          \* the selected vertex: None or <<<<x, y>>>>
    circles,                 \* HoughCircles' result, then its rounded uint16 copy
    circle_center,           \* the selected circle's centre: None or <<<<x, y>>>>
    largest_circle,          \* the selected circle: None or <<<<x, y, r>>>>
    height,                  \* None or <<height>>
    ret,                     \* calculate's return value: None until it returns
    max_preview_dim,         \* config.MAX_PREVIEW_DIM
    uploaded_file_path,      \* uploaded_file_path1/2.current, by slot: None or <<file>>
    selected_image_path,     \* selected_image_path1/2.current.value, by slot
    start_disabled,          \* start_calculate_button.current.disabled
    controls                 \* image_preview, result_text and loading_indicator, by slot

vars == << pc, file, is_image_1, loading_visible, preview_visible,
           preview_src, result_value, result_color, cv_calls, img, lines, v_lines,
           i, j, line1, line2, pair, potential_intersections, v_bottom_point, circles,
           circle_center, largest_circle, height, ret, max_preview_dim,
           uploaded_file_path, selected_image_path, start_disabled, controls >>

uiVars == << loading_visible, preview_visible, preview_src, result_value, result_color >>
lineVars == << lines, v_lines, i, j, line1, line2, pair, potential_intersections, v_bottom_point >>
circleVars == << circles, circle_center, largest_circle >>
appVars == << max_preview_dim, uploaded_file_path, selected_image_path, start_disabled,
             controls >>
inputVars == << file, is_image_1, appVars >>

(***************************************************************************)
(* Lines 48-49 and 63: abs(degrees(arctan2(dy, dx))) compared with a band  *)
(* edge.  For integers dy, dx the comparison is decided on the tangent:    *)
(* tan(30 deg) = 1/sqrt(3), so |dy|/|dx| > tan(30 deg) iff 3 dy^2 > dx^2;  *)
(* tan(85 deg) = 11.4300523..., and no fraction of two integers up to      *)
(* max_process_dim lies between it and Tan85.  arctan2(0, 0) is 0.         *)
(***************************************************************************)
Tan85 == <<114301, 10000>>
SteeperThan30(dy, dx) == 3 * dy * dy > dx * dx
FlatterThan85(dy, dx) == Abs(dy) * Tan85[2] < Tan85[1] * Abs(dx)
AbsAngleGT30(dy, dx) == dx < 0 \/ (dx = 0 /\ dy # 0) \/ (dx > 0 /\ SteeperThan30(dy, dx))
\* AbsAngleLT85 with a vertical segment's 90 degrees counted as below 85.
AbsAngleLT85_UpTo90(dy, dx) == (dx > 0 /\ FlatterThan85(dy, dx)) \/ dx = 0
AbsAngleLT85(dy, dx) == (dx > 0 /\ FlatterThan85(dy, dx)) \/ (dx = 0 /\ dy = 0)
AbsAngleGT95(dy, dx) == dx < 0 /\ FlatterThan85(dy, dx)
AbsAngleLT150(dy, dx) == dx >= 0 \/ SteeperThan30(dy, dx)

\* IsVLine as one band from 30 to 150 degrees, without the gap around 90.
IsVLine_NoGap(line) ==
    LET dy == line[4] - line[2]
        dx == line[3] - line[1]
    IN  AbsAngleGT30(dy, dx) /\ AbsAngleLT150(dy, dx)
\* Lines 46-66: the angle filter on one segment <<x1, y1, x2, y2>>.
IsVLine(line) ==
    LET dy == line[4] - line[2]
        dx == line[3] - line[1]
    IN  \/ (AbsAngleGT30(dy, dx) /\ AbsAngleLT85(dy, dx))
        \/ (AbsAngleGT95(dy, dx) /\ AbsAngleLT150(dy, dx))

(***************************************************************************)
(* Lines 74-113: one iteration of the pair loop up to the validity test.   *)
(* The result records the branch taken, every divisor used, the value of   *)
(* m1 - m2 when line 112 divides by it, and the intersection (None when    *)
(* the iteration ends in `continue`).                                      *)
(***************************************************************************)
Skipped(branch, divisors) ==
    [branch |-> branch, divisors |-> divisors, m_diff |-> None, point |-> None]
IntersectLines(l1, l2) ==
    LET x1 == l1[1]  y1 == l1[2]  x2 == l1[3]  y2 == l1[4]
        x3 == l2[1]  y3 == l2[2]  x4 == l2[3]  y4 == l2[4]
        denom1 == x2 - x1
        denom2 == x4 - x3
    IN  IF denom1 = 0 /\ denom2 = 0 THEN Skipped("both_vertical", << >>)
        ELSE IF denom1 = 0 THEN
            LET m2 == Rat(y4 - y3, denom2)
            IN  [branch |-> "line1_vertical", divisors |-> << FromInt(denom2) >>,
                 m_diff |-> None,
                 point |-> Some(<< FromInt(x1),
                                   FAdd(FMul(m2, FromInt(x1 - x3)), FromInt(y3)) >>)]
        ELSE IF denom2 = 0 THEN
            LET m1 == Rat(y2 - y1, denom1)
            IN  [branch |-> "line2_vertical", divisors |-> << FromInt(denom1) >>,
                 m_diff |-> None,
                 point |-> Some(<< FromInt(x3),
                                   FAdd(FMul(m1, FromInt(x3 - x1)), FromInt(y1)) >>)]
        ELSE
            LET m1 == Rat(y2 - y1, denom1)
                c1 == FSub(FromInt(y1), FMul(m1, FromInt(x1)))
                m2 == Rat(y4 - y3, denom2)
                c2 == FSub(FromInt(y3), FMul(m2, FromInt(x3)))
                slopes == << FromInt(denom1), FromInt(denom2) >>
            IN  IF FLt(FAbs(FSub(m1, m2)), ParallelEps)
                THEN Skipped("slope", slopes)
                ELSE LET x_intersect == FDiv(FSub(c2, c1), FSub(m1, m2))
                         y_intersect == FAdd(FMul(m1, x_intersect), c1)
                     IN  [branch |-> "slope",
                          divisors |-> Append(slopes, FSub(m1, m2)),
                          m_diff |-> Some(FSub(m1, m2)),
                          point |-> Some(<< x_intersect, y_intersect >>)]

\* ValidIntersection without the test of line 118.
ValidIntersection_NoRegion(p, shape) ==
    /\ FLe(FromInt(0), p[1]) /\ FLt(p[1], FromInt(shape[2]))
    /\ FLe(FromInt(0), p[2]) /\ FLt(p[2], FromInt(shape[1]))
\* Lines 117-118: the validity test on an intersection, in an image of shape <<h, w>>.
ValidIntersection(p, shape) ==
    /\ FLe(FromInt(0), p[1]) /\ FLt(p[1], FromInt(shape[2]))
    /\ FLe(FromInt(0), p[2]) /\ FLt(p[2], FromInt(shape[1]))
    /\ FLt(FMul(FromInt(shape[1]), VertexRegion), p[2])

\* Line 119: the point as it is stored.
StoredPoint(p) == << IntOf(p[1]), IntOf(p[2]) >>

\* MinByY taking the last point of least y, not the first.
MinByY_Last(points) ==
    LET k == CHOOSE a \in DOMAIN points :
                 /\ \A b \in DOMAIN points : points[a][2] <= points[b][2]
                 /\ \A b \in (a + 1)..Len(points) : points[b][2] > points[a][2]
    IN  points[k]
\* Line 123: min(points, key=lambda p: p[1]) returns the first point of least y.
MinByY(points) ==
    LET k == CHOOSE a \in DOMAIN points :
                 /\ \A b \in DOMAIN points : points[a][2] <= points[b][2]
                 /\ \A b \in 1..(a - 1) : points[b][2] > points[a][2]
    IN  points[k]

(***************************************************************************)
(* Line 149: np.uint16(np.around(circles)).  np.around rounds half to even *)
(* and the cast keeps the value modulo 2^16.  k is a value in halves.      *)
(***************************************************************************)
AroundHalves(k) ==
    IF k % 2 = 0 THEN k \div 2
    ELSE IF ((k - 1) \div 2) % 2 = 0 THEN (k - 1) \div 2 ELSE (k + 1) \div 2
ToUint16(n) == n % Uint16
RoundCircle(c) == << ToUint16(AroundHalves(c[1])), ToUint16(AroundHalves(c[2])),
                     ToUint16(AroundHalves(c[3])) >>
RoundCircles(cs) == [k \in DOMAIN cs |-> RoundCircle(cs[k])]

\* InBand with the band's edges included.
InBand_Inclusive(center_y, img_height) ==
    /\ FLe(FMul(FromInt(img_height), BandLow), FromInt(center_y))
    /\ FLe(FromInt(center_y), FMul(FromInt(img_height), BandHigh))
\* Line 166: the band test of one loop iteration.
InBand(center_y, img_height) ==
    /\ FLt(FMul(FromInt(img_height), BandLow), FromInt(center_y))
    /\ FLt(FromInt(center_y), FMul(FromInt(img_height), BandHigh))
\* Lines 153-168: the loop over the rounded circles; the result is
\* largest_circle (None when no iteration assigned it).
RECURSIVE LargestFrom(_, _, _, _, _)
LargestFrom(cs, k, max_radius, largest, img_height) ==
    IF k > Len(cs) THEN largest
    ELSE IF InBand(cs[k][2], img_height) /\ cs[k][3] > max_radius
         THEN LargestFrom(cs, k + 1, cs[k][3], Some(cs[k]), img_height)
         ELSE LargestFrom(cs, k + 1, max_radius, largest, img_height)
LargestCircle(cs, img_height) == LargestFrom(cs, 1, 0, None, img_height)

(***************************************************************************)
(* Line 182: v_bottom_point[1] - circle_center[1], a Python int minus an   *)
(* np.uint16.  NumPy 1.x promotes the pair to int64; NumPy 2 (NEP 50)      *)
(* keeps uint16 and wraps around.  The sources pin no NumPy version.       *)
(***************************************************************************)
SubtractUint16(a, b, nep50) == IF nep50 THEN (a - b) % Uint16 ELSE a - b

(***************************************************************************)
(* main.py.  A text of the result label is <<template, n, height>>: the    *)
(* template of the f-string, the image number it is filled with (0 when    *)
(* it has none) and the height it formats (None when it has none).  The    *)
(* templates stand for the literals of main.py:                            *)
(*   ""                 ""                       (lines 66, 171)           *)
(*   "calculating"      "计算中..."                  (line 108)                *)
(*   "cannot_read"      "图片{n}：无法读取图片。"        (line 74)                 *)
(*   "encode_failed"    "图片{n}：图片编码失败。"        (line 95)                 *)
(*   "not_recognized"   "图片{n}：未能识别到圆或V形块。"   (lines 123 and 154)       *)
(*   "processed_encode_failed"                                             *)
(*                      "图片{n}：处理后的图片编码失败。"  (line 144)                *)
(*   "height"           "圆心高度 (图片{n}): {height:.2f} 像素"  (line 151)       *)
(***************************************************************************)
Text(template, n, h) == << template, n, h >>
ImageNumber(is1) == IF is1 THEN 1 ELSE 2
\* Line 123: the text set when calculate returned no image.
FailedText(n) == Text("not_recognized", n, None)
\* Line 154: the text set when calculate returned an image and no height.
NoHeightText(n) == Text("not_recognized", n, None)
\* UnreadableResult with a height of 0 in place of None.
UnreadableResult_ZeroHeight == [height |-> Some(0), img |-> None]
\* Line 21: what calculate returns for a file it cannot read.
UnreadableResult == [height |-> None, img |-> None]

\* Lines 61-98: display_original_image, as the new state of the slot's
\* controls and the returned flag.  encode_ok is image_to_base64's success.
DisplayOriginal(f, is1, src, encode_ok) ==
    IF ~f.readable
    THEN [ok |-> FALSE, preview_src |-> "none", preview_visible |-> FALSE,
          result_value |-> Text("cannot_read", ImageNumber(is1), None),
          result_color |-> "RED_500"]
    ELSE IF encode_ok
    THEN [ok |-> TRUE, preview_src |-> "original", preview_visible |-> TRUE,
          result_value |-> Text("", 0, None), result_color |-> "BLACK"]
    ELSE [ok |-> FALSE, preview_src |-> src, preview_visible |-> FALSE,
          result_value |-> Text("encode_failed", ImageNumber(is1), None),
          result_color |-> "RED_500"]

Files == { [readable |-> FALSE, shape |-> <<0, 0>>] }
             \cup { [readable |-> TRUE, shape |-> sh] : sh \in Shapes }

(***************************************************************************)
(* Lines 76-80 and 129-133: the preview is downscaled when its longer side *)
(* exceeds config.MAX_PREVIEW_DIM, a positive number the sources do not    *)
(* give: the model takes one value below and one above max_process_dim.    *)
(* int(w * scale) is the floor of w * MAX_PREVIEW_DIM / max(h, w), and     *)
(* cv2.resize raises cv2.error when it is 0; nothing catches it.           *)
(***************************************************************************)
PreviewDims == { 300, 1000 }
PreviewSide(side, longest, dim) == (side * dim) \div longest
PreviewResizeRaises(shape, dim) ==
    /\ Max(shape[1], shape[2]) > dim
    /\ \/ PreviewSide(shape[1], Max(shape[1], shape[2]), dim) = 0
       \/ PreviewSide(shape[2], Max(shape[1], shape[2]), dim) = 0

Slots == { 1, 2 }
\* The controls of a slot, as display_original_image's result d leaves them.
SlotControls(d, loading) ==
    [preview_visible |-> d.preview_visible, preview_src |-> d.preview_src,
     result_value |-> d.result_value, result_color |-> d.result_color,
     loading_visible |-> loading]
\* Lines 53-58: the button's disabled flag for the two stored paths.
ButtonDisabled(paths) == ~(paths[1] # None /\ paths[2] # None)
\* Lines 36-51, 212-217 and the controls' constructors: the page as built.
InitialControls ==
    [preview_visible |-> FALSE, preview_src |-> "none",
     result_value |-> Text("", 0, None), result_color |-> "BLUE_700",
     loading_visible |-> FALSE]

(***************************************************************************)
(* The slot holds a picked file: on_dialog_result (lines 159-165) has      *)
(* stored its path and shown it with display_original_image, whose PNG     *)
(* encoding succeeded if the file could be read.  The same file was picked *)
(* for the other slot, and the button was enabled and clicked.  While      *)
(* perform_calculation runs, the controls it was passed are the variables  *)
(* loading_visible to result_color.                                        *)
(***************************************************************************)
Init ==
    /\ pc = "perform_calculation"
    /\ file \in Files
    /\ is_image_1 \in BOOLEAN
    /\ max_preview_dim \in PreviewDims
    /\ uploaded_file_path = [n \in Slots |-> Some(file)]
    /\ selected_image_path = [n \in Slots |-> "basename"]
    /\ start_disabled = FALSE
    /\ controls = [n \in Slots |->
                     SlotControls(DisplayOriginal(file, n = 1, "none", TRUE), FALSE)]
    /\ loading_visible = FALSE
    /\ LET d == DisplayOriginal(file, is_image_1, "none", TRUE)
       IN  /\ preview_visible = d.preview_visible
           /\ preview_src = d.preview_src
           /\ result_value = d.result_value
           /\ result_color = d.result_color
    /\ cv_calls = { }
    /\ img = None
    /\ lines = None
    /\ v_lines = << >>
    /\ i = 0
    /\ j = 0
    /\ line1 = None
    /\ line2 = None
    /\ pair = Skipped("", << >>)
    /\ potential_intersections = << >>
    /\ v_bottom_point = None
    /\ circles = None
    /\ circle_center = None
    /\ largest_circle = None
    /\ height = None
    /\ ret = None

\* Lines 106-110: perform_calculation up to the call.
PerformStart ==
    /\ pc = "perform_calculation"
    /\ loading_visible' = TRUE
    /\ preview_visible' = FALSE
    /\ result_value' = Text("calculating", 0, None)
    /\ result_color' = "BLACK"
    /\ pc' = "imread"
    /\ UNCHANGED << inputVars, preview_src, cv_calls, img, lineVars, circleVars, height, ret >>

\* Lines 18-21.
Imread ==
    /\ pc = "imread"
    /\ cv_calls' = cv_calls \cup { "imread" }
    /\ IF file.readable
       THEN /\ img' = Some(file.shape)
            /\ pc' = "resize"
            /\ ret' = ret
       ELSE /\ img' = None
            /\ pc' = "returned"
            /\ ret' = Some(UnreadableResult)
    /\ UNCHANGED << inputVars, uiVars, lineVars, circleVars, height >>

(***************************************************************************)
(* Lines 25-29.  int(w * scale) is the floor of w * 800 / max(h, w).       *)
(* cv2.resize raises cv2.error when a side of dsize is 0; nothing catches  *)
(* it in calculate_circle_center_height, perform_calculation or            *)
(* on_start_calculate_click.                                               *)
(***************************************************************************)
ScaledSide(side, longest) == (side * max_process_dim) \div longest
Resize ==
    /\ pc = "resize"
    /\ LET h == img[1][1]
           w == img[1][2]
       IN  IF Max(h, w) > max_process_dim
           THEN /\ cv_calls' = cv_calls \cup { "resize" }
                /\ IF ScaledSide(w, Max(h, w)) = 0 \/ ScaledSide(h, Max(h, w)) = 0
                   THEN /\ pc' = "raised"
                        /\ img' = img
                   ELSE /\ pc' = "edges"
                        /\ img' = Some(<< ScaledSide(h, Max(h, w)), ScaledSide(w, Max(h, w)) >>)
           ELSE /\ cv_calls' = cv_calls
                /\ pc' = "edges"
                /\ img' = img
    /\ UNCHANGED << inputVars, uiVars, lineVars, circleVars, height, ret >>

\* Lines 31-34: grayscale, median blur, Canny.
EdgeDetect ==
    /\ pc = "edges"
    /\ cv_calls' = cv_calls \cup { "cvtColor", "medianBlur", "Canny" }
    /\ pc' = "hough_lines"
    /\ UNCHANGED << inputVars, uiVars, img, lineVars, circleVars, height, ret >>

\* Lines 41-42: HoughLinesP returns None or an array of at least one segment.
HoughLinesP ==
    /\ pc = "hough_lines"
    /\ cv_calls' = cv_calls \cup { "HoughLinesP" }
    /\ lines' \in LineResults(img[1])
    /\ pc' = "filter_lines"
    /\ UNCHANGED << inputVars, uiVars, img, v_lines, i, j, line1, line2, pair,
                    potential_intersections, v_bottom_point, circleVars, height, ret >>

\* Lines 43-66: the angle filter, in the order of detection.
VLines(ls) == SelectSeq(ls, IsVLine)
FilterLines ==
    /\ pc = "filter_lines"
    /\ v_lines' = IF lines # None THEN VLines(lines) ELSE << >>
    /\ pc' = "vertex"
    /\ UNCHANGED << inputVars, uiVars, cv_calls, img, lines, i, j, line1, line2, pair,
                    potential_intersections, v_bottom_point, circleVars, height, ret >>

\* Lines 69-73: enter the pair loop when there are at least two segments.
\* The indices are 1-based: the code's (i, j) is (i - 1, j - 1).
StartPairs ==
    /\ pc = "vertex"
    /\ v_bottom_point' = None
    /\ IF Len(v_lines) >= 2
       THEN /\ potential_intersections' = << >>
            /\ i' = 1
            /\ j' = 2
            /\ pc' = "pair"
       ELSE /\ UNCHANGED << potential_intersections, i, j >>
            /\ pc' = "hough_circles"
    /\ UNCHANGED << inputVars, uiVars, cv_calls, img, lines, v_lines, line1, line2, pair,
                    circleVars, height, ret >>

\* Lines 74-119: one iteration of the inner loop, and the step to the next pair.
IntersectPair ==
    /\ pc = "pair"
    /\ line1' = v_lines[i]
    /\ line2' = v_lines[j]
    /\ LET r == IntersectLines(v_lines[i], v_lines[j])
       IN  /\ pair' = r
           /\ potential_intersections' =
                 IF r.point # None /\ ValidIntersection(r.point[1], img[1])
                 THEN Append(potential_intersections, StoredPoint(r.point[1]))
                 ELSE potential_intersections
    /\ IF j < Len(v_lines)
       THEN /\ j' = j + 1
            /\ i' = i
            /\ pc' = "pair"
       ELSE IF i + 1 < Len(v_lines)
       THEN /\ i' = i + 1
            /\ j' = i + 2
            /\ pc' = "pair"
       ELSE /\ UNCHANGED << i, j >>
            /\ pc' = "select_vertex"
    /\ UNCHANGED << inputVars, uiVars, cv_calls, img, lines, v_lines, v_bottom_point,
                    circleVars, height, ret >>

\* Lines 122-124.
SelectVertex ==
    /\ pc = "select_vertex"
    /\ IF potential_intersections # << >>
       THEN /\ v_bottom_point' = Some(MinByY(potential_intersections))
            /\ cv_calls' = cv_calls \cup { "circle" }
       ELSE UNCHANGED << v_bottom_point, cv_calls >>
    /\ pc' = "hough_circles"
    /\ UNCHANGED << inputVars, uiVars, img, lines, v_lines, i, j, line1, line2, pair,
                    potential_intersections, circleVars, height, ret >>

\* Lines 136-145: HoughCircles returns None or an array of at least one circle.
HoughCircles ==
    /\ pc = "hough_circles"
    /\ cv_calls' = cv_calls \cup { "HoughCircles" }
    /\ circles' \in CircleResults(img[1])
    /\ pc' = "select_circle"
    /\ UNCHANGED << inputVars, uiVars, img, lineVars, circle_center, largest_circle, height, ret >>

\* Lines 147-175.
SelectCircle ==
    /\ pc = "select_circle"
    /\ IF circles # None
       THEN LET largest == LargestCircle(RoundCircles(circles), img[1][1])
            IN  /\ circles' = RoundCircles(circles)
                /\ largest_circle' = largest
                /\ IF largest # None
                   THEN /\ circle_center' = Some(<< largest[1][1], largest[1][2] >>)
                        /\ cv_calls' = cv_calls \cup { "circle" }
                   ELSE UNCHANGED << circle_center, cv_calls >>
       ELSE UNCHANGED << circles, circle_center, largest_circle, cv_calls >>
    /\ pc' = "height"
    /\ UNCHANGED << inputVars, uiVars, img, lineVars, height, ret >>

\* Lines 178-198: a non-empty tuple is truthy, whatever it holds.  nep50 is
\* the promotion rule of the NumPy the program runs with.
ComputeHeight ==
    /\ pc = "height"
    /\ \E nep50 \in BOOLEAN :
          LET h == IF v_bottom_point # None /\ circle_center # None
                   THEN Some(SubtractUint16(v_bottom_point[1][2], circle_center[1][2],
                                            nep50))
                   ELSE None
          IN  /\ height' = h
              /\ cv_calls' = IF h # None THEN cv_calls \cup { "line", "putText" }
                                         ELSE cv_calls
              /\ ret' = Some([height |-> h, img |-> img])
    /\ pc' = "returned"
    /\ UNCHANGED << inputVars, uiVars, img, lineVars, circleVars >>

(***************************************************************************)
(* Lines 112-157: perform_calculation after the call returned.  The        *)
(* resize of line 133 raises before anything but the loading indicator     *)
(* has changed; encode_ok and encode_ok2 are the successes of              *)
(* image_to_base64 on the processed and on the original image.  The        *)
(* fallback display_original_image passes its own resize (line 80)         *)
(* whenever the processed image passed line 133, the original being at     *)
(* least as large with the same proportions up to truncation.              *)
(***************************************************************************)
PerformFinish ==
    /\ pc = "returned"
    /\ loading_visible' = FALSE
    /\ \E encode_ok, encode_ok2 \in BOOLEAN :
          LET n == ImageNumber(is_image_1)
              d == DisplayOriginal(file, is_image_1, preview_src, encode_ok2)
          IN  IF ret[1].img = None
              THEN /\ preview_src' = d.preview_src
                   /\ preview_visible' = d.preview_visible
                   /\ result_value' = FailedText(n)
                   /\ result_color' = "ORANGE_700"
                   /\ pc' = "done"
              ELSE IF PreviewResizeRaises(ret[1].img[1], max_preview_dim)
              THEN /\ pc' = "raised"
                   /\ UNCHANGED << preview_src, preview_visible, result_value, result_color >>
              ELSE IF encode_ok
              THEN /\ preview_src' = "processed"
                   /\ preview_visible' = TRUE
                   /\ IF ret[1].height # None
                      THEN /\ result_value' = Text("height", n, ret[1].height)
                           /\ result_color' = "BLUE_700"
                      ELSE /\ result_value' = NoHeightText(n)
                           /\ result_color' = "ORANGE_700"
                   /\ pc' = "done"
              ELSE /\ preview_src' = d.preview_src
                   /\ preview_visible' = d.preview_visible
                   /\ result_value' = Text("processed_encode_failed", n, None)
                   /\ result_color' = "RED_500"
                   /\ pc' = "done"
    /\ UNCHANGED << inputVars, cv_calls, img, lineVars, circleVars, height, ret >>

Next ==
    \/ PerformStart
    \/ Imread
    \/ Resize
    \/ EdgeDetect
    \/ HoughLinesP
    \/ FilterLines
    \/ StartPairs
    \/ IntersectPair
    \/ SelectVertex
    \/ HoughCircles
    \/ SelectCircle
    \/ ComputeHeight
    \/ PerformFinish

Spec == Init /\ [][Next]_vars

(***************************************************************************)
(* The file pickers.  The page is as main built it (lines 36-51, 212-217   *)
(* and 373-374): no path is stored, the button is disabled, and no         *)
(* perform_calculation is running.                                         *)
(***************************************************************************)
InitUI ==
    /\ pc = "idle"
    /\ file = None
    /\ is_image_1 = TRUE
    /\ max_preview_dim \in PreviewDims
    /\ uploaded_file_path = [n \in Slots |-> None]
    /\ selected_image_path = [n \in Slots |-> "no_image"]
    /\ start_disabled = ButtonDisabled(uploaded_file_path)
    /\ controls = [n \in Slots |-> InitialControls]
    /\ loading_visible = FALSE
    /\ preview_visible = FALSE
    /\ preview_src = "none"
    /\ result_value = Text("", 0, None)
    /\ result_color = "BLUE_700"
    /\ cv_calls = { }
    /\ img = None
    /\ lines = None
    /\ v_lines = << >>
    /\ i = 0
    /\ j = 0
    /\ line1 = None
    /\ line2 = None
    /\ pair = Skipped("", << >>)
    /\ potential_intersections = << >>
    /\ v_bottom_point = None
    /\ circles = None
    /\ circle_center = None
    /\ largest_circle = None
    /\ height = None
    /\ ret = None

(***************************************************************************)
(* Lines 159-191: the handler of slot n's file picker, for the event's     *)
(* files (none when the dialog was cancelled).  With a file, lines 66-67   *)
(* of display_original_image clear the result text, and the resize of      *)
(* line 80 may raise: the handler then ends there, after the path was      *)
(* stored and before update_start_calculate_button_state.  "basename" is   *)
(* os.path.basename(file_path) and "no_image" is "未选择图片".               *)
(***************************************************************************)
DialogResult(n) ==
    /\ \E files \in { << >> } \cup { << f >> : f \in Files }, encode_ok \in BOOLEAN :
          IF files # << >>
          THEN LET f == files[1]
                   d == DisplayOriginal(f, n = 1, controls[n].preview_src, encode_ok)
               IN  /\ uploaded_file_path' = [uploaded_file_path EXCEPT ![n] = Some(f)]
                   /\ selected_image_path' = [selected_image_path EXCEPT ![n] = "basename"]
                   /\ IF f.readable /\ PreviewResizeRaises(f.shape, max_preview_dim)
                      THEN /\ controls' = [controls EXCEPT
                                              ![n].result_value = Text("", 0, None),
                                              ![n].result_color = "BLACK"]
                           /\ UNCHANGED start_disabled
                      ELSE /\ controls' = [controls EXCEPT
                                              ![n] = SlotControls(d, @.loading_visible)]
                           /\ start_disabled' = ButtonDisabled(uploaded_file_path')
          ELSE /\ uploaded_file_path' = [uploaded_file_path EXCEPT ![n] = None]
               /\ selected_image_path' = [selected_image_path EXCEPT ![n] = "no_image"]
               /\ controls' = [controls EXCEPT
                                  ![n].preview_src = "none",
                                  ![n].preview_visible = FALSE,
                                  ![n].result_value = Text("", 0, None),
                                  ![n].loading_visible = FALSE]
               /\ start_disabled' = ButtonDisabled(uploaded_file_path')
    /\ UNCHANGED << pc, file, is_image_1, max_preview_dim, uiVars, cv_calls, img,
                    lineVars, circleVars, height, ret >>

\* Lines 159-173 and 175-191: a handler runs when none is running.
on_dialog_result1 ==
    /\ pc = "idle"
    /\ DialogResult(1)
on_dialog_result2 ==
    /\ pc = "idle"
    /\ DialogResult(2)

NextUI ==
    \/ on_dialog_result1
    \/ on_dialog_result2

SpecUI == InitUI /\ [][NextUI]_vars

(***************************************************************************)
(* Where a run is.  calculate_circle_center_height is past the angle       *)
(* filter, past the vertex selection, past the circle selection.           *)
(***************************************************************************)
AfterCircle == img # None /\ pc \in { "height", "returned", "done" }
AfterVertex == img # None /\ pc \in { "hough_circles", "select_circle", "height", "returned", "done" }
AfterFilter == img # None /\ pc \in { "vertex", "pair", "select_vertex", "hough_circles",
                                      "select_circle", "height", "returned", "done" }
Finished == pc \in { "returned", "done", "raised" }

(***************************************************************************)
(* C1.  When both a vertex and a circle are established, the returned      *)
(* height is vertex.y - circle.center.y as a signed number: negative, not  *)
(* wrapped around, when the vertex lies above the circle's centre.         *)
(***************************************************************************)
C1_SignedHeight ==
    (ret # None /\ v_bottom_point # None /\ circle_center # None)
        => ret[1].height = Some(v_bottom_point[1][2] - circle_center[1][2])

(***************************************************************************)
(* C2.  For every readable image, once the measurement has ended with the  *)
(* vertex or the circle absent, it has returned height None together with  *)
(* an annotated image; a height is returned only when both are present.    *)
(***************************************************************************)
C2_AbsentGivesNone ==
    /\ (file.readable /\ Finished /\ (v_bottom_point = None \/ circle_center = None))
          => (ret # None /\ ret[1].height = None /\ ret[1].img # None)
    /\ (ret # None /\ ret[1].height # None)
          => (v_bottom_point # None /\ circle_center # None)

(***************************************************************************)
(* C3.  No exception leaves calculate_circle_center_height or              *)
(* perform_calculation.                                                    *)
(***************************************************************************)
C3_NeverRaises == pc # "raised"

(***************************************************************************)
(* C4.  For a file that cannot be read, the function returns (None, None)  *)
(* right after imread: no other cv2 call is made, nothing is detected or   *)
(* selected, and nothing is raised.                                        *)
(***************************************************************************)
C4_UnreadableReturnsNone ==
    (~file.readable /\ pc \notin { "perform_calculation", "imread" })
        => /\ pc \in { "returned", "done" }
           /\ ret = Some([height |-> None, img |-> None])
           /\ cv_calls = { "imread" }
           /\ img = None /\ lines = None /\ circles = None
           /\ v_bottom_point = None /\ circle_center = None /\ height = None
C4_Witness == ~file.readable /\ pc = "returned" /\ ret # None

(***************************************************************************)
(* C5.  The selected vertex is the first stored intersection, in the order *)
(* of the pairs i < j, whose y is the least; with no stored intersection,  *)
(* and so with fewer than two filtered segments, there is no vertex.       *)
(***************************************************************************)
C5_VertexIsFirstTopmost ==
    AfterVertex =>
        IF Len(v_lines) < 2 \/ potential_intersections = << >>
        THEN v_bottom_point = None /\ potential_intersections = << >>
        ELSE \E k \in DOMAIN potential_intersections :
                /\ v_bottom_point = Some(potential_intersections[k])
                /\ \A b \in DOMAIN potential_intersections :
                      /\ potential_intersections[k][2] <= potential_intersections[b][2]
                      /\ b < k => potential_intersections[k][2] < potential_intersections[b][2]
\* Two different stored points share the least y, and the earlier one is the vertex.
C5_Witness ==
    /\ pc = "hough_circles"
    /\ \E a, b \in DOMAIN potential_intersections :
          /\ a < b
          /\ potential_intersections[a] # potential_intersections[b]
          /\ potential_intersections[a][2] = potential_intersections[b][2]
          /\ v_bottom_point = Some(potential_intersections[a])

\* 0.3 h < y < 0.7 h, on integers.
StrictlyInBand(y, h) == 3 * h < 10 * y /\ 10 * y < 7 * h

(***************************************************************************)
(* C6.  The selected circle is the first of the (rounded) candidates whose *)
(* centre y lies strictly between 0.3 H and 0.7 H that has the largest     *)
(* radius among those; with no candidate in the band there is no circle.   *)
(***************************************************************************)
C6_CircleIsFirstLargestInBand ==
    AfterCircle =>
        LET band == { k \in DOMAIN circles : StrictlyInBand(circles[k][2], img[1][1]) }
        IN  IF band = { }
            THEN circle_center = None /\ largest_circle = None
            ELSE \E k \in band :
                    /\ circle_center = Some(<< circles[k][1], circles[k][2] >>)
                    /\ largest_circle = Some(circles[k])
                    /\ \A b \in band :
                          /\ circles[b][3] <= circles[k][3]
                          /\ b < k => circles[b][3] < circles[k][3]
\* A candidate outside the band has a larger radius than the selected circle.
C6_Witness ==
    /\ pc = "height"
    /\ circle_center # None
    /\ \E k \in DOMAIN circles :
          /\ ~StrictlyInBand(circles[k][2], img[1][1])
          /\ circles[k][3] > largest_circle[1][3]

\* The absolute angle of segment s lies in (30, 85) or in (95, 150) degrees.
AngleInBands(s) ==
    LET dy == s[4] - s[2]
        dx == s[3] - s[1]
    IN  \/ (AbsAngleGT30(dy, dx) /\ AbsAngleLT85(dy, dx))
        \/ (AbsAngleGT95(dy, dx) /\ AbsAngleLT150(dy, dx))
\* Segment s is among the filtered segments.
Kept(s) == \E m \in DOMAIN v_lines : v_lines[m] = s

(***************************************************************************)
(* C7.  A detected segment is among the filtered segments exactly when the *)
(* absolute value of its angle lies strictly between 30 and 85 degrees or  *)
(* strictly between 95 and 150 degrees; no horizontal and no vertical      *)
(* segment is kept, and the pair loop reads filtered segments only.        *)
(***************************************************************************)
C7_OnlyBandSegmentsKept ==
    AfterFilter =>
        /\ \A k \in DOMAIN lines : Kept(lines[k]) <=> AngleInBands(lines[k])
        /\ \A m \in DOMAIN v_lines :
              /\ \E k \in DOMAIN lines : lines[k] = v_lines[m]
              /\ v_lines[m][1] # v_lines[m][3]
              /\ v_lines[m][2] # v_lines[m][4]
        /\ line1 # None => (Kept(line1) /\ Kept(line2))
\* A vertical segment was detected and dropped, and a segment of each band
\* (one running right, one running left) was kept.
C7_Witness ==
    /\ pc = "vertex"
    /\ \E k \in DOMAIN lines : lines[k][1] = lines[k][3] /\ ~Kept(lines[k])
    /\ \E k \in DOMAIN lines : lines[k][3] > lines[k][1] /\ Kept(lines[k])
    /\ \E k \in DOMAIN lines : lines[k][3] < lines[k][1] /\ Kept(lines[k])

\* (dy_a dx_b - dy_b dx_a): zero exactly when a and b are parallel.
Cross(a, b) == (a[4] - a[2]) * (b[3] - b[1]) - (b[4] - b[2]) * (a[3] - a[1])
\* a and b are parallel, or neither is vertical and |m_a - m_b| < 0.1.
SlopesWithinTenth(a, b) ==
    \/ Cross(a, b) = 0
    \/ /\ a[3] # a[1] /\ b[3] # b[1]
       /\ 10 * Abs(Cross(a, b)) < Abs((a[3] - a[1]) * (b[3] - b[1]))
\* What one iteration of the pair loop must do.
C8_PairStep ==
    pc = "pair" =>
        /\ SlopesWithinTenth(v_lines[i], v_lines[j])
              => /\ pair'.point = None
                 /\ pair'.m_diff = None
                 /\ potential_intersections' = potential_intersections
        /\ pair'.m_diff # None
              => 10 * Abs(pair'.m_diff[1][1]) >= pair'.m_diff[1][2]
        /\ \A d \in DOMAIN pair'.divisors :
              pair'.divisors[d][1] # 0 /\ pair'.divisors[d][2] # 0

(***************************************************************************)
(* C8.  A pair of filtered segments that are parallel, or whose slopes     *)
(* differ by less than 0.1, is skipped and stores no point; the division   *)
(* by m1 - m2 is made only with |m1 - m2| >= 0.1, and no divisor of the    *)
(* pair loop is zero.                                                      *)
(***************************************************************************)
C8_NoNearParallelDivision == [][C8_PairStep]_vars
\* The last pair had different slopes less than 0.1 apart and was skipped.
C8_Witness ==
    /\ pc \in { "pair", "select_vertex" }
    /\ line1 # None
    /\ Cross(line1, line2) # 0
    /\ SlopesWithinTenth(line1, line2)
    /\ pair.point = None

(***************************************************************************)
(* The lines through the segments a and b meet at <<nx / d, ny / d>>, by   *)
(* Cramer's rule on integers, with d > 0; d = 0 when they are parallel.    *)
(***************************************************************************)
Meet(a, b) ==
    LET dx1 == a[3] - a[1]   dy1 == a[4] - a[2]
        dx2 == b[3] - b[1]   dy2 == b[4] - b[2]
        det == dx1 * dy2 - dy1 * dx2
        t == (b[1] - a[1]) * dy2 - (b[2] - a[2]) * dx2
        sign == IF det < 0 THEN -1 ELSE 1
    IN  [d |-> sign * det,
         nx |-> sign * (a[1] * det + t * dx1),
         ny |-> sign * (a[2] * det + t * dy1)]
\* The meeting point m has 0 <= x < w, 0 <= y < h and y > 0.4 h.
InLowerImage(m, h, w) ==
    /\ m.d > 0
    /\ 0 <= m.nx /\ m.nx < w * m.d
    /\ 0 <= m.ny /\ m.ny < h * m.d
    /\ 5 * m.ny > 2 * h * m.d

(***************************************************************************)
(* C9.  Every stored candidate is the truncation of the intersection of a  *)
(* pair of filtered segments that lies in the image (0 <= x < W,           *)
(* 0 <= y < H) with y > 0.4 H; the selected vertex is a stored candidate.  *)
(***************************************************************************)
C9_CandidatesAreValid ==
    img # None =>
        LET met == { Meet(v_lines[ab[1]], v_lines[ab[2]]) :
                        ab \in { x \in (DOMAIN v_lines) \X (DOMAIN v_lines) : x[1] < x[2] } }
            truncated == { << m.nx \div m.d, m.ny \div m.d >> :
                              m \in { r \in met : InLowerImage(r, img[1][1], img[1][2]) } }
        IN  /\ \A k \in DOMAIN potential_intersections :
                  potential_intersections[k] \in truncated
            /\ v_bottom_point # None
                  => \E k \in DOMAIN potential_intersections :
                        v_bottom_point = Some(potential_intersections[k])
\* Of the pairs of a finished loop one was stored and another meets inside
\* the image (0 <= x < W, 0 <= y < H) but in its upper 40%, and was not stored.
C9_Witness ==
    /\ pc = "select_vertex"
    /\ potential_intersections # << >>
    /\ \E a, b \in DOMAIN v_lines :
          LET r == IntersectLines(v_lines[a], v_lines[b])
          IN  /\ a < b /\ r.point # None
              /\ 0 <= r.point[1][1][1]
              /\ r.point[1][1][1] < img[1][2] * r.point[1][1][2]
              /\ 0 <= r.point[1][2][1]
              /\ 5 * r.point[1][2][1] <= 2 * img[1][1] * r.point[1][2][2]
              /\ \A k \in DOMAIN potential_intersections :
                    potential_intersections[k] # StoredPoint(r.point[1])

(***************************************************************************)
(* C10.  After perform_calculation on a file that cannot be read, the      *)
(* result text differs from the text shown for an image that was read but  *)
(* gave no height.                                                         *)
(***************************************************************************)
C10_DistinctFailureTexts ==
    (pc = "done" /\ ~file.readable)
        => result_value # NoHeightText(ImageNumber(is_image_1))

VerticalKept == \E m \in DOMAIN v_lines : v_lines[m][1] = v_lines[m][3]

(***************************************************************************)
(* C14.  No filtered segment is vertical (x1 = x2), and no iteration of    *)
(* the pair loop takes the both-vertical or a one-vertical branch: every   *)
(* iteration goes through the slope-intercept branch.                      *)
(***************************************************************************)
C14_NoVerticalBranch ==
    /\ ~VerticalKept
    /\ pair.branch \in { "", "slope" }
\* HoughLinesP reported a vertical segment, at least two segments passed the
\* filter, and the last pair of the loop was intersected by its slopes.
C14_Witness ==
    /\ pc = "select_vertex"
    /\ \E m \in DOMAIN lines : lines[m][1] = lines[m][3]
    /\ Len(v_lines) >= 2
    /\ pair.branch = "slope"
    /\ pair.point # None

(***************************************************************************)
(* C11.  After any sequence of file-picker results the button is enabled   *)
(* exactly when both slots hold an uploaded file path.                     *)
(***************************************************************************)
C11_ButtonIffBothPaths ==
    ~start_disabled <=> \A n \in Slots : uploaded_file_path[n] # None

(***************************************************************************)
(* C12.  When perform_calculation has ended, by returning or by an         *)
(* exception, the slot's loading indicator is hidden and its result text   *)
(* is no longer the in-progress text.                                      *)
(***************************************************************************)
C12_EndsWithFinalText ==
    pc \in { "done", "raised" } =>
        /\ ~loading_visible
        /\ result_value # Text("calculating", 0, None)

====
